---- MODULE Spec2Model ----
(***************************************************************************)
(* PrinceJS router, middleware chain and dispatcher (src/src/prince.ts,    *)
(* class Prince), the rateLimit middleware (middleware.ts) and the cache   *)
(* helper (src/src/helpers.ts).                                            *)
(*                                                                         *)
(* A path string is a sequence of tokens: the token "/" and segment atoms  *)
(* ("u", "me", ":id", "*", "**", "1", ...).  "/u/:id" is                   *)
(* <<"/", "u", "/", ":id">>, "/" is <<"/">>, "/u/1/" is                    *)
(* <<"/", "u", "/", "1", "/">>.  A handler is identified by the index of   *)
(* the registration that supplied it (every registration passes a fresh    *)
(* function).                                                              *)
(***************************************************************************)
EXTENDS Integers, Sequences, FiniteSets, TLC

VARIABLES rawRoutes, staticRoutes, routeCache, router, middlewares,
          handlers, throwing, errorHandler, devMode,
          req, res, log,
          clock, rateStore, ratePending, rateLog,
          cacheStore, cacheAwait, cacheTimers, handlerCalled, cacheStored,
          cacheLog,
          tasks, root, handlerMap

\* rawRoutes .. middlewares, errorHandler and devMode are the fields of
\* Prince; handlers[h] is what the function registered as handler h does
\* and throwing is the set of the registered handlers that throw.
\* req, res and log record
\* the latest request served under the current routes and middleware: the
\* request, the Response fetch resolved to, and the events of its chain.
\* clock is Date.now() in milliseconds.  rateStore is the store of one
\* rateLimit(max, window) middleware, ratePending the number of its requests
\* that are in next(), and rateLog the requests it has seen, in order: client
\* IP, time window, and the status it answered (0 when it called next()).
appVars == <<rawRoutes, staticRoutes, routeCache, router, middlewares,
             handlers, throwing, errorHandler, devMode, req, res, log>>
rateVars == <<rateStore, ratePending, rateLog>>
\* cacheStore is the store of one cache(ttl), cacheAwait the requests that
\* await the wrapped handler, cacheTimers the pending setTimeout callbacks
\* and handlerCalled the number of calls of the wrapped handler.  cacheStored
\* records per URL the time and the data of the latest write to the store,
\* and cacheLog the requests in order of arrival.
cacheVars == <<cacheStore, cacheAwait, cacheTimers, handlerCalled, cacheStored,
               cacheLog>>
\* tasks are the requests in flight under handleFetch, in order of arrival,
\* each with its position in executeHandler and the events of its chain.
\* root and handlerMap are the trie and the compiled pipelines that listen()
\* of the trie router holds.
trieVars == <<root, handlerMap>>
vars == <<appVars, clock, rateVars, cacheVars, tasks, trieVars>>

\* ------------------------------------------------------------------ bounds
\* registrations, entries of routeCache (requests that miss the cache are
\* served while it holds fewer), registered middleware
MaxRoutes == 2
MaxCache == 1
MaxMw == 3
\* requests through the rate limiter, and seconds the clock advances
MaxRateRequests == 4
MaxTicks == 3
\* requests to the cached handler
MaxCacheRequests == 3
\* requests that are served concurrently
MaxTasks == 2

\* ------------------------------------------------------------ input pools
Slash == "/"

\* the registrations get(path, h) / post(path, h) the router is given
Registrations ==
  { <<"GET", <<"/">>>>,
    <<"GET", <<"/", "u", "/", "me">>>>,
    <<"POST", <<"u", "/", "me", "/">>>>,
    <<"GET", <<"/", "u", "/", ":id">>>>,
    <<"POST", <<"/", "u", "/", ":id">>>>,
    <<"GET", <<"/", "u", "/", ":id", "/", ":pid">>>>,
    <<"POST", <<"/", "u", "/", ":id", "/", ":id">>>>,
    <<"GET", <<"/", "u", "/", ":id", "/", "*">>>>,
    <<"GET", <<"/", "s", "/", "**">>>> }

\* the requests: method and pathname
ReqMethods == {"GET", "PUT"}
ReqPaths ==
  { <<"/">>,
    <<"/", "u", "/", "me">>,
    <<"/", "u", "/", "me", "/">>,
    <<"/", "u", "/", "1">>,
    <<"/", "u", "/", "1", "/">>,
    <<"/", "u", "/", "1", "/", "2">>,
    <<"/", "s">>,
    <<"/", "s", "/", "1">>,
    <<"/", "s", "/", "1", "/", "2">>,
    <<"/", "x">> }

\* the registrations and requests of the middleware-chain specification
ChainRegistrations ==
  { <<"GET", <<"/">>>>, <<"GET", <<"/", "u", "/", ":id">>>> }
ChainRequests ==
  { <<"GET", <<"/">>>>, <<"GET", <<"/", "u", "/", "1">>>>, <<"GET", <<"/", "x">>>> }

\* the registrations and requests of the wildcard specification
WildRegistrations ==
  { <<"GET", <<"/", "u", "/", "*", "/", "st">>>>,
    <<"POST", <<"/", "u", "/", "*", "/", "st">>>>,
    <<"GET", <<"/", "u", "/", ":id">>>>,
    <<"GET", <<"/", "f", "/", "*">>>>,
    <<"GET", <<"/", "u", "/", "**", "/", "x">>>>,
    <<"GET", <<"/", "s", "/", "**">>>> }
WildRequests ==
  { <<"GET", <<"/", "u", "/", "1", "/", "st">>>>,
    <<"PUT", <<"/", "u", "/", "1", "/", "st">>>>,
    <<"GET", <<"/", "u", "/", "st">>>>,
    <<"GET", <<"/", "u", "/", "1", "/", "2", "/", "st">>>>,
    <<"GET", <<"/", "u", "/", "1", "/", "x">>>>,
    <<"GET", <<"/", "u", "/", "1">>>>,
    <<"GET", <<"/", "f">>>>,
    <<"GET", <<"/", "f", "/", "1">>>>,
    <<"GET", <<"/", "f", "/", "1", "/", "2">>>> }

\* the registrations and requests of the dispatcher specification
DispatchRegistrations ==
  { <<"GET", <<"/", "api">>>>,
    <<"OPTIONS", <<"/", "api">>>> }
DispatchRequests ==
  { <<"GET", <<"/", "api">>>>,
    <<"OPTIONS", <<"/", "api">>>>,
    <<"OPTIONS", <<"/", "x">>>> }

\* the registrations and requests of the validation specification
ValidateRegistrations == { <<"POST", <<"/", "user">>>> }
ValidateRequests == { <<"POST", <<"/", "user">>>> }

\* the registrations and requests of the specification with handlers that
\* write to req.params
MutateRegistrations ==
  { <<"GET", <<"/", "u", "/", ":id">>>>, <<"POST", <<"/", "u", "/", ":id">>>> }
MutateRequests ==
  { <<"GET", <<"/", "u", "/", "1">>>>,
    <<"GET", <<"/", "u", "/", "2">>>>,
    <<"POST", <<"/", "u", "/", "1">>>>,
    <<"GET", <<"/", "x">>>> }

\* the registrations and requests of the specification of concurrent
\* requests
TaskRegistrations == { <<"GET", <<"/", "u", "/", ":id">>>> }
TaskRequests == { <<"GET", <<"/", "u", "/", "1">>>>, <<"GET", <<"/", "u", "/", "2">>>> }
TaskMwKinds == {"pass", "through"}

\* the registrations, middleware and requests of the trie router
TrieRegistrations ==
  { <<"GET", <<"/">>>>,
    <<"GET", <<"/", "users", "/", ":id">>>>,
    <<"PUT", <<"/", "users", "/", ":id">>>> }
TrieRequests ==
  { <<"GET", <<"/">>>>,
    <<"POST", <<"/">>>>,
    <<"GET", <<"/", "users", "/", "1">>>>,
    <<"GET", <<"/", "users", "/", "2">>>>,
    <<"POST", <<"/", "users", "/", "1">>>>,
    <<"GET", <<"/", "x">>>> }
TrieMwKinds == {"pass", "through"}

\* ------------------------------------------------------- string primitives
\* part.startsWith(':') / part.includes(':')
ParamSegs == {":id", ":pid"}
StartsWithColon(part) == part \in ParamSegs
\* part.slice(1) of a ":name" segment
ParamName(part) == IF part = ":id" THEN "id" ELSE "pid"
\* part.includes('*')
IncludesStar(part) == part \in {"*", "**"}

StartsWithSlash(p) == Len(p) > 0 /\ p[1] = Slash
EndsWithSlash(p) == Len(p) > 0 /\ p[Len(p)] = Slash

\* p.split("/") from position k on, a piece starting at k
RECURSIVE SplitFrom(_, _)
SplitFrom(p, k) ==
  IF k > Len(p) THEN <<"">>
  ELSE IF p[k] = Slash THEN <<"">> \o SplitFrom(p, k + 1)
  ELSE IF k = Len(p) THEN <<p[k]>>
  ELSE <<p[k]>> \o SplitFrom(p, k + 2)

\* path === "/" ? [""] : path.split("/").slice(1)
Parts(path) == IF path = <<Slash>> THEN <<"">> ELSE Tail(SplitFrom(path, 1))

\* Array.prototype.includes
Includes(seq, x) == \E k \in 1..Len(seq) : seq[k] = x

\* ---------------------------------------------------------- maps, params
NoHandler == 0
EmptyMap == [k \in {} |-> NoHandler]
MapSetKeepsFirst(f, k, v) ==
  [x \in (DOMAIN f) \cup {k} |-> IF x \in DOMAIN f THEN f[x] ELSE v]
MapSet(f, k, v) == [x \in (DOMAIN f) \cup {k} |-> IF x = k THEN v ELSE f[x]]
MapHas(f, k) == k \in DOMAIN f

EmptyParams == [n \in {} |-> ""]
ParamSet(params, n, v) == MapSet(params, n, v)
ParamDelete(params, n) == [x \in (DOMAIN params) \ {n} |-> params[x]]

\* ------------------------------------------------------------------- add
\* the path after the two normalisation lines of add()
NormalizePath(path) ==
  LET p1 == IF ~StartsWithSlash(path) THEN <<Slash>> \o path ELSE path
  IN IF p1 # <<Slash>> /\ EndsWithSlash(p1) THEN SubSeq(p1, 1, Len(p1) - 1) ELSE p1

IsStaticRoute(parts) ==
  ~ \E k \in 1..Len(parts) : StartsWithColon(parts[k]) \/ IncludesStar(parts[k])

RouteEntry(method, path, handler) ==
  [method |-> method, path |-> path, parts |-> Parts(path), handler |-> handler]

\* ----------------------------------------------------------- radix tree
\* The tree is a sequence of nodes, children hold node indices, node 1 is the
\* root; the empty sequence is router = null.
NoRouter == <<>>
NoName == ""

NewNodeNoWildcard(part) ==
  [pattern |-> part, handlers |-> EmptyMap, children |-> <<>>,
   paramName |-> IF StartsWithColon(part) THEN ParamName(part) ELSE NoName,
   isWildcard |-> FALSE,
   isCatchAll |-> (~StartsWithColon(part) /\ part # "*" /\ part = "**")]
NewNode(part) ==
  [pattern |-> part, handlers |-> EmptyMap, children |-> <<>>,
   paramName |-> IF StartsWithColon(part) THEN ParamName(part) ELSE NoName,
   isWildcard |-> (~StartsWithColon(part) /\ part = "*"),
   isCatchAll |-> (~StartsWithColon(part) /\ part # "*" /\ part = "**")]

RootNode == [pattern |-> "", handlers |-> EmptyMap, children |-> <<>>,
             paramName |-> NoName, isWildcard |-> FALSE, isCatchAll |-> FALSE]

\* the first child of node cur whose pattern is part, 0 when there is none
RECURSIVE FindChild(_, _, _, _)
FindChild(tree, cur, part, c) ==
  IF c > Len(tree[cur].children) THEN 0
  ELSE IF tree[tree[cur].children[c]].pattern = part THEN tree[cur].children[c]
  ELSE FindChild(tree, cur, part, c + 1)

RECURSIVE InsertFrom(_, _, _, _)
InsertFrom(tree, cur, route, i) ==
  IF i > Len(route.parts)
  THEN [tree EXCEPT ![cur].handlers = MapSet(@, route.method, route.handler)]
  ELSE LET part == route.parts[i]
           found == FindChild(tree, cur, part, 1)
       IN IF found # 0
          THEN InsertFrom(tree, found, route, i + 1)
          ELSE LET id == Len(tree) + 1
                   t1 == Append([tree EXCEPT ![cur].children = Append(@, id)],
                                NewNode(part))
               IN InsertFrom(t1, id, route, i + 1)

insertRoute(tree, route) == InsertFrom(tree, 1, route, 1)

RECURSIVE BuildFrom(_, _, _, _)
BuildFrom(tree, routes, statics, k) ==
  IF k > Len(routes) THEN tree
  ELSE IF MapHas(statics, <<routes[k].method, routes[k].path>>)
       THEN BuildFrom(tree, routes, statics, k + 1)
       ELSE BuildFrom(insertRoute(tree, routes[k]), routes, statics, k + 1)

\* buildRouter(): the cached tree, or a tree built from rawRoutes
buildRouter(cur, routes, statics) ==
  IF cur # NoRouter THEN cur ELSE BuildFrom(<<RootNode>>, routes, statics, 1)

\* ------------------------------------------------------------ matchRoute
NullMatch(params) == [found |-> FALSE, handler |-> NoHandler, params |-> params]
IsStaticChild(child) ==
  child.paramName = NoName /\ ~child.isWildcard /\ ~child.isCatchAll

\* matchRoute(node, segments, method, params, index): the result, and the
\* params object as the call leaves it (it is shared by the whole walk).
\* TryChildren is the four loops over node.children, phase 1 static,
\* 2 param, 3 wildcard, 4 catch-all, at child c.
RECURSIVE matchRoute(_, _, _, _, _, _), TryChildren(_, _, _, _, _, _, _, _)
matchRoute(tree, node, segments, method, params, index) ==
  IF index = Len(segments) + 1
  THEN IF MapHas(tree[node].handlers, method)
       THEN [found |-> TRUE, handler |-> tree[node].handlers[method], params |-> params]
       ELSE NullMatch(params)
  ELSE TryChildren(tree, node, segments, method, params, index, 1, 1)

TryChildren(tree, node, segments, method, params, index, phase, c) ==
  IF c > Len(tree[node].children)
  THEN IF phase < 4
       THEN TryChildren(tree, node, segments, method, params, index, phase + 1, 1)
       ELSE NullMatch(params)
  ELSE
    LET cid == tree[node].children[c]
        child == tree[cid]
        segment == segments[index]
        skip == TryChildren(tree, node, segments, method, params, index, phase, c + 1)
    IN CASE phase = 1 ->
              IF IsStaticChild(child) /\ child.pattern = segment
              THEN LET r == matchRoute(tree, cid, segments, method, params, index + 1)
                   IN IF r.found THEN r
                      ELSE TryChildren(tree, node, segments, method, r.params,
                                       index, phase, c + 1)
              ELSE skip
         [] phase = 2 ->
              IF child.paramName # NoName
              THEN LET r == matchRoute(tree, cid, segments, method,
                                       ParamSet(params, child.paramName, segment),
                                       index + 1)
                   IN IF r.found THEN r
                      ELSE TryChildren(tree, node, segments, method,
                                       ParamDelete(r.params, child.paramName),
                                       index, phase, c + 1)
              ELSE skip
         [] phase = 3 ->
              IF child.isWildcard
              THEN LET r == matchRoute(tree, cid, segments, method, params, index + 1)
                   IN IF r.found THEN r
                      ELSE TryChildren(tree, node, segments, method, r.params,
                                       index, phase, c + 1)
              ELSE skip
         [] OTHER ->
              IF child.isCatchAll /\ MapHas(child.handlers, method)
              THEN [found |-> TRUE, handler |-> child.handlers[method],
                    params |-> params]
              ELSE skip

\* ------------------------------------------------------------- matchPath
matchPath(routePath, requestPath) ==
  LET routeParts == Parts(routePath)
      requestParts == Parts(requestPath)
  IN IF Len(routeParts) # Len(requestParts)
     THEN Includes(routeParts, "**")
     ELSE \A k \in 1..Len(routeParts) :
            \/ StartsWithColon(routeParts[k])
            \/ routeParts[k] = "*"
            \/ routeParts[k] = "**"
            \/ routeParts[k] = requestParts[k]

\* ------------------------------------------------------------- findRoute
\* A findRoute result: null, a match {handler, params}, or
\* {handler: null, params: {}, allowedMethods}.
NullResult ==
  [isNull |-> TRUE, handler |-> NoHandler, params |-> EmptyParams,
   hasAllowed |-> FALSE, allowedMethods |-> <<>>]
MatchResult(handler, params) ==
  [isNull |-> FALSE, handler |-> handler, params |-> params,
   hasAllowed |-> FALSE, allowedMethods |-> <<>>]
MethodNotAllowedResult(allowed) ==
  [isNull |-> FALSE, handler |-> NoHandler, params |-> EmptyParams,
   hasAllowed |-> TRUE, allowedMethods |-> allowed]

\* Array.from(allowedMethods): the methods of the routes matchPath accepts,
\* in the order the Set first saw them
RECURSIVE AllowedFrom(_, _, _, _)
AllowedFrom(routes, pathname, k, acc) ==
  IF k > Len(routes) THEN acc
  ELSE AllowedFrom(routes, pathname, k + 1,
         IF matchPath(routes[k].path, pathname) /\ ~Includes(acc, routes[k].method)
         THEN Append(acc, routes[k].method) ELSE acc)

PathExists(routes, pathname) ==
  \E k \in 1..Len(routes) : matchPath(routes[k].path, pathname)

\* this.staticRoutes.get(staticKey): the handler, or none
StaticGetMiss(statics, staticKey) == NoHandler
StaticGet(statics, staticKey) ==
  IF MapHas(statics, staticKey) THEN statics[staticKey] ELSE NoHandler

\* findRoute(method, pathname) on the state (routes, statics, cache, tree):
\* the result, with the routeCache and the router as the call leaves them
findRoute(routes, statics, cache, tree, method, pathname) ==
  LET cacheKey == <<method, pathname>>
      out(r, t) == [result |-> r, cache |-> MapSet(cache, cacheKey, r), router |-> t]
  IN IF MapHas(cache, cacheKey)
     THEN [result |-> cache[cacheKey], cache |-> cache, router |-> tree]
     ELSE IF StaticGet(statics, cacheKey) # NoHandler
     THEN out(MatchResult(StaticGet(statics, cacheKey), EmptyParams), tree)
     ELSE IF ~PathExists(routes, pathname)
     THEN out(NullResult, tree)
     ELSE LET built == buildRouter(tree, routes, statics)
              m == matchRoute(built, 1, Parts(pathname), method, EmptyParams, 1)
          IN IF m.found
             THEN out(MatchResult(m.handler, m.params), built)
             ELSE out(MethodNotAllowedResult(AllowedFrom(routes, pathname, 1, <<>>)),
                      built)

\* -------------------------------------------------------------- responses
\* A Response: status, the error of a JSON error body, the Allow header (a
\* sequence of methods, joined with ", "), the handler whose result is the body
\* with the params that handler saw, the middleware that built it, and the
\* middleware that rebuilt it with added headers, innermost first.
Response(status, error, allow, handler, params, mw) ==
  [status |-> status, error |-> error, allow |-> allow, handler |-> handler,
   params |-> params, mw |-> mw, tags |-> <<>>,
   cors |-> FALSE, stack |-> FALSE, custom |-> FALSE,
   contentType |-> "", body |-> "none", details |-> {}]

NoEvents == <<>>
Event(what, k) == <<what, k>>

\* what a middleware returns when it returns no Response
Undefined == Response(0, "", <<>>, NoHandler, EmptyParams, 0)
\* result instanceof Response
IsResponseNever(r) == FALSE
IsResponseAlways(r) == TRUE
IsResponse(r) == r.status > 0

\* throw new Error(message): what a call yields in place of a value when it
\* throws, and what fetch yields when its promise rejects
Thrown(message) == Response(-1, message, <<>>, NoHandler, EmptyParams, 0)
IsThrown(r) == r.status < 0
\* String(err) of an Error
String(message) == "Error: " \o message

\* new Response(JSON.stringify(..), {headers: {"Content-Type":
\* "application/json"}}) of the response r
AsJson(r) == [r EXCEPT !.contentType = "application/json", !.body = "json"]
\* this.json(data, status) of an error body
JsonError(error, status) ==
  AsJson(Response(status, error, <<>>, NoHandler, EmptyParams, 0))
\* this.json(res) of the data a route handler returns: every handler returns
\* its own identity and the req.params it was called with
JsonData(handler, params) == AsJson(Response(200, "", <<>>, handler, params, 0))

\* ------------------------------------------------------------ request body
\* The body of a request: none, text that is no JSON, or a JSON value, which
\* is the number 0 or an object given by the type of each of its fields.
NoBody == [kind |-> "none", fields |-> EmptyParams]
Malformed == [kind |-> "malformed", fields |-> EmptyParams]
JsonZero == [kind |-> "zero", fields |-> EmptyParams]
JsonObject(fields) == [kind |-> "object", fields |-> fields]
Null == [kind |-> "null", fields |-> EmptyParams]
UndefinedBody == [kind |-> "undefined", fields |-> EmptyParams]

\* parseBody(req): req.json() for a JSON content type, null when that throws
\* and for a request without a content type
parseBody(contentType, body) ==
  IF contentType = "application/json" /\ body.kind \in {"zero", "object"}
  THEN body ELSE Null
\* if (parsed): an object is truthy, 0 and null are not
Truthy(value) == value.kind = "object"
\* req.parsedBody as executeHandler leaves it
ParsedBody(method, contentType, body) ==
  IF method \in {"POST", "PUT", "PATCH"} /\ Truthy(parseBody(contentType, body))
  THEN parseBody(contentType, body)
  ELSE UndefinedBody

\* z.object({ name: z.string(), age: z.number() })
Schema == [n \in {"name", "age"} |-> IF n = "name" THEN "string" ELSE "number"]
\* the paths of the issues of schema.parse(value): the fields that miss or
\* have another type, the root "" for a value that is no object
Issues(value) ==
  IF value.kind = "object"
  THEN {n \in DOMAIN Schema :
          n \notin DOMAIN value.fields \/ value.fields[n] # Schema[n]}
  ELSE {""}
Satisfies(value) == Issues(value) = {}
\* the 400 of validate, built by middleware mw
ValidationFailed(value, mw) ==
  [AsJson(Response(400, "Validation failed", <<>>, NoHandler, EmptyParams, mw))
     EXCEPT !.details = Issues(value)]

\* the content type and body of the requests of the validation
\* specification: {name: "Alice", age: 30}, {name: "Alice", age: "x"},
\* {name: "Alice"}, 0 and text that is no JSON, all sent as JSON, and a
\* request without content type and body
ValidateBodies ==
  { <<"application/json", JsonObject([n \in {"name", "age"} |->
                                       IF n = "name" THEN "string" ELSE "number"])>>,
    <<"application/json", JsonObject([n \in {"name", "age"} |-> "string"])>>,
    <<"application/json", JsonObject([n \in {"name"} |-> "string"])>>,
    <<"application/json", JsonZero>>,
    <<"application/json", Malformed>>,
    <<"", NoBody>> }

\* ----------------------------------------------------------------- handlers
\* What a function registered as a route handler does:
\*   "data"      returns an object: its identity and the req.params it sees
\*   "mutates"   as "data", and then sets req.params.id = "0"
\*   "response"  returns a Response of its own (201, text/html)
\*   "string"    returns a string
\*   "bytes"     returns a Uint8Array
\*   "inline"    is validate(schema) of validation.ts, the second argument
\*               of post(path, validate(schema), handler): called without
\*               next, it returns undefined for a body that satisfies the
\*               schema and the 400 for another
HandlerKinds == {"data", "mutates", "response", "string", "bytes", "inline"}
Mutate(params) == ParamSet(params, "id", "0")

\* the value handler(req) resolves to: a Response, or another value whose
\* kind says what it is
CallHandler(handler, rq) ==
  LET own == Response(200, "", <<>>, handler, rq.params, 0)
      kind == handlers[handler]
  IN CASE handler \in throwing -> [kind |-> "thrown", response |-> Thrown("boom")]
       [] kind = "response" ->
            [kind |-> "response",
             response |-> [Response(201, "", <<>>, handler, rq.params, 0)
                             EXCEPT !.contentType = "text/html", !.body = "own"]]
       [] kind = "inline" /\ ~Satisfies(rq.parsedBody) ->
            [kind |-> "response", response |-> ValidationFailed(rq.parsedBody, 0)]
       [] kind = "inline" ->
            [kind |-> "undefined",
             response |-> Response(200, "", <<>>, NoHandler, EmptyParams, 0)]
       [] OTHER -> [kind |-> IF kind \in {"string", "bytes"} THEN kind ELSE "object",
                    response |-> own]

\* the end of next(): a Response is returned as it is, a string and a
\* Uint8Array become new Response(res), anything else this.json(res), which
\* for undefined has no body
NormalizeAllJson(value) ==
  IF value.kind \in {"thrown", "response"} THEN value.response
  ELSE AsJson(value.response)
Normalize(value) ==
  CASE value.kind \in {"thrown", "response"} -> value.response
    [] value.kind = "string" ->
         [value.response EXCEPT !.contentType = "text/plain;charset=UTF-8",
                                !.body = "text"]
    [] value.kind = "bytes" -> [value.response EXCEPT !.body = "bytes"]
    [] value.kind = "undefined" -> [value.response EXCEPT !.contentType = "application/json"]
    [] OTHER -> AsJson(value.response)
\* the event of the call of what is registered as handler
HandlerEvent(handler) ==
  Event(IF handlers[handler] = "inline" THEN "inline" ELSE "handler", handler)

\* ------------------------------------------------------- middleware chain
\* What a registered middleware does:
\*   "pass"     returns undefined without calling next()
\*   "wrap"     r = await next(); returns r rebuilt with its own header
\*   "through"  returns await next() unchanged
\*   "discard"  awaits next() and returns undefined
\*   "short"    returns a Response (401) without calling next()
\*   "cors"     cors(): answers OPTIONS with 204 and the CORS headers without
\*              calling next(); else r = await next() rebuilt with the headers
\*   "throws"   throws Error("mw") without calling next()
\*   "validate" validate(schema) of middleware.ts: answers 400 when
\*              req.parsedBody is set and fails the schema, else returns
\*              next()
MwKinds == {"pass", "wrap", "through", "discard", "short"}
DispatchMwKinds == {"cors", "throws"}

\* executeHandler's closure: i is the shared chain position, log the events
\* of the request so far
ChainStartAtOne == [i |-> 1, log |-> NoEvents]
ChainStart == [i |-> 0, log |-> NoEvents]

\* next(): the while loop over this.middlewares and the call of the handler.
\* RunMiddleware is the call this.middlewares[k](req, next).
\* what middleware k of the given kind returns once the next() it awaited has
\* settled with inner: an exception of next() passes through it
AfterNext(kind, k, inner) ==
  LET after == [inner.st EXCEPT !.log = Append(@, Event("after", k))]
  IN CASE IsThrown(inner.res) -> inner
       [] kind = "wrap" ->
            [st |-> after, res |-> [inner.res EXCEPT !.tags = Append(@, k)]]
       [] kind = "cors" ->
            [st |-> after, res |-> IF IsResponse(inner.res)
                                   THEN [inner.res EXCEPT !.cors = TRUE]
                                   ELSE inner.res]
       [] kind \in {"through", "validate"} -> [st |-> after, res |-> inner.res]
       [] OTHER -> [st |-> after, res |-> Undefined]

\* the loop of next() stops at a Response and at an exception
Settled(out) == IsThrown(out.res) \/ IsResponse(out.res)

RECURSIVE next(_, _, _, _), RunMiddleware(_, _, _, _, _)
next(mws, handler, rq, st) ==
  IF st.i < Len(mws)
  THEN LET k == st.i + 1
           out == RunMiddleware(mws, handler, rq, k, [st EXCEPT !.i = st.i + 1])
       IN IF Settled(out) THEN out
          ELSE next(mws, handler, rq, out.st)
  ELSE [st |-> [st EXCEPT !.log = Append(@, HandlerEvent(handler))],
        res |-> Normalize(CallHandler(handler, rq))]

RunMiddleware(mws, handler, rq, k, st) ==
  LET entered == [st EXCEPT !.log = Append(@, Event("mw", k))]
      preflight == [Response(204, "", <<>>, NoHandler, EmptyParams, k)
                      EXCEPT !.cors = TRUE]
  IN CASE mws[k] = "pass" -> [st |-> entered, res |-> Undefined]
       [] mws[k] = "short" ->
            [st |-> entered, res |-> Response(401, "Unauthorized", <<>>,
                                              NoHandler, EmptyParams, k)]
       [] mws[k] = "throws" -> [st |-> entered, res |-> Thrown("mw")]
       [] mws[k] = "cors" /\ rq.method = "OPTIONS" ->
            [st |-> entered, res |-> preflight]
       [] /\ mws[k] = "validate" /\ Truthy(rq.parsedBody)
          /\ ~Satisfies(rq.parsedBody) ->
            [st |-> entered, res |-> ValidationFailed(rq.parsedBody, k)]
       [] OTHER -> AfterNext(mws[k], k, next(mws, handler, rq, entered))

\* executeHandler(req, handler, params, query)
executeHandler(mws, handler, rq) == next(mws, handler, rq, ChainStart)

\* ----------------------------------------------------------- handleFetch
\* The params object of a match is the one object that routeCache holds and
\* that req.params is: what a handler writes to req.params is written to the
\* cached match.
CacheAfter(cache, key, handler, chainLog) ==
  IF handlers[handler] = "mutates" /\ Includes(chainLog, Event("handler", handler))
  THEN [cache EXCEPT ![key].params = Mutate(@)]
  ELSE cache

\* handleFetch(req) on the current state, for a request with a content type
\* and a body: the response, the events of the chain, and the routeCache and
\* router as findRoute and the handler leave them
handleFetchBody(method, pathname, contentType, body) ==
  LET f == findRoute(rawRoutes, staticRoutes, routeCache, router, method, pathname)
      routeMatch == f.result
      done(r, l, c) == [res |-> r, log |-> l, cache |-> c, router |-> f.router]
      ran(e) == done(e.res, e.st.log,
                     CacheAfter(f.cache, <<method, pathname>>, routeMatch.handler,
                                e.st.log))
  IN IF routeMatch.isNull
     THEN done(JsonError("Not Found", 404), NoEvents, f.cache)
     ELSE IF routeMatch.hasAllowed /\ routeMatch.handler = NoHandler
     THEN done(AsJson(Response(405, "Method Not Allowed", routeMatch.allowedMethods,
                               NoHandler, EmptyParams, 0)), NoEvents, f.cache)
     ELSE ran(executeHandler(middlewares, routeMatch.handler,
                             [method |-> method, params |-> routeMatch.params,
                              parsedBody |-> ParsedBody(method, contentType, body)]))

\* handleFetch(req) of a request without a body
handleFetch(method, pathname) == handleFetchBody(method, pathname, "", NoBody)

\* ------------------------------------------------------------------ fetch
HasErrorHandlerNever == FALSE
HasErrorHandler == errorHandler # "none"
DevModeAlways == TRUE
DevMode == devMode

\* the catch branch of fetch for the exception h.res that handleFetch threw:
\* the registered error handler is called, and returns a Response of its own
\* holding err.message or throws; without one the answer is a 500 built by
\* json().
catch(h) ==
  LET err == h.res.error
      called == Append(h.log, Event("error", 0))
  IN IF HasErrorHandler
     THEN IF errorHandler = "returns"
          THEN [h EXCEPT !.log = called,
                         !.res = [JsonError(err, 500) EXCEPT !.custom = TRUE]]
          ELSE [h EXCEPT !.log = called, !.res = Thrown("error handler")]
     ELSE IF DevMode
     THEN [h EXCEPT !.res = [JsonError(String(err), 500) EXCEPT !.stack = TRUE]]
     ELSE [h EXCEPT !.res = JsonError("Internal Server Error", 500)]

\* try { return await this.handleFetch(req) } catch (err) { ... }
try(h) == IF IsThrown(h.res) THEN catch(h) ELSE h

\* fetch(req)
fetch(method, pathname) == try(handleFetch(method, pathname))
fetchBody(method, pathname, contentType, body) ==
  try(handleFetchBody(method, pathname, contentType, body))

\* ------------------------------------------------------------- rateLimit
\* Strings of the rate limiter are sequences of characters.
DigitChars == <<"0", "1", "2", "3", "4", "5", "6", "7", "8", "9">>
IsDigit(c) == \E d \in DOMAIN DigitChars : DigitChars[d] = c
DigitValue(c) == (CHOOSE d \in DOMAIN DigitChars : DigitChars[d] = c) - 1

\* `${n}` of a non-negative integer
RECURSIVE ToDecimal(_)
ToDecimal(n) ==
  IF n < 10 THEN <<DigitChars[n + 1]>>
  ELSE Append(ToDecimal(n \div 10), DigitChars[(n % 10) + 1])

\* parseInt(s): the number its leading decimal digits spell, NaN when s is
\* undefined or starts with no digit
NaN == -1
NoString == <<"undefined">>
RECURSIVE ParseDigits(_, _, _)
ParseDigits(s, j, acc) ==
  IF j <= Len(s) /\ IsDigit(s[j])
  THEN ParseDigits(s, j + 1, acc * 10 + DigitValue(s[j]))
  ELSE acc
parseInt(s) ==
  IF s = NoString \/ s = <<>> \/ ~IsDigit(s[1]) THEN NaN
  ELSE ParseDigits(s, 1, 0)

\* s.split(":")
RECURSIVE SplitColon(_, _, _, _)
SplitColon(s, j, cur, out) ==
  IF j > Len(s) THEN Append(out, cur)
  ELSE IF s[j] = ":" THEN SplitColon(s, j + 1, <<>>, Append(out, cur))
  ELSE SplitColon(s, j + 1, Append(cur, s[j]), out)
split(s) == SplitColon(s, 1, <<>>, <<>>)
\* s.split(":")[1]
SecondPiece(s) == IF Len(split(s)) >= 2 THEN split(s)[2] ELSE NoString

\* rateLimit(RateMax, RateWindow): requests per window, seconds per window
RateMax == 2
RateWindow == 1
MsPerSecond == 1000
\* Math.floor(Date.now() / (window * 1000))
WindowOf(now) == now \div (RateWindow * MsPerSecond)
\* `${ip}:${window number}`
RateKey(ip, now) == ip \o <<":">> \o ToDecimal(WindowOf(now))

\* the client IPs of the requests, as the proxy headers give them:
\* 10.0.0.1, 10.0.0.2 and 2a:7::1
RateIps ==
  { <<"1", "0", ".", "0", ".", "0", ".", "1">>,
    <<"1", "0", ".", "0", ".", "0", ".", "2">>,
    <<"2", "a", ":", "7", ":", ":", "1">> }

\* the cleanup of the store: now - timestamp > 2 is false for NaN
IsOld(k, now) ==
  LET timestamp == parseInt(SecondPiece(k))
  IN timestamp # NaN /\ WindowOf(now) - timestamp > 2
Cleanup(store, now) ==
  [k \in {x \in DOMAIN store : ~IsOld(x, now)} |-> store[k]]

\* ------------------------------------------------------------------ cache
\* cache(Ttl): seconds
Ttl == 2
\* req.url of the requests
CacheUrls == {"/a", "/b"}
\* store[key]?.exp > now
IsFresh(store, key, now) == MapHas(store, key) /\ store[key].exp > now
\* delete store[key]
MapDelete(f, k) == [x \in (DOMAIN f) \ {k} |-> f[x]]

\* ---------------------------------------------------------------- actions
\* Date.now() at construction, in milliseconds.  Times are scaled down: the
\* window number of the clock is above the numbers that the pieces of a
\* client IP spell, as it is for Date.now() and windows of seconds.
ClockStart == 10000
HelpersIdle ==
  /\ clock = ClockStart
  /\ rateStore = EmptyMap
  /\ ratePending = 0
  /\ rateLog = <<>>
  /\ cacheStore = EmptyMap
  /\ cacheAwait = {}
  /\ cacheTimers = {}
  /\ handlerCalled = 0
  /\ cacheStored = EmptyMap
  /\ cacheLog = <<>>
  /\ tasks = <<>>
  /\ root = NoRouter
  /\ handlerMap = EmptyMap
helperVars == <<clock, rateVars, cacheVars, tasks, trieVars>>

NoRequest == [method |-> "", path |-> <<>>]

\* new Prince(devMode)
Construct(dev) ==
  /\ rawRoutes = <<>>
  /\ staticRoutes = EmptyMap
  /\ routeCache = EmptyMap
  /\ router = NoRouter
  /\ middlewares = <<>>
  /\ handlers = <<>>
  /\ throwing = {}
  /\ errorHandler = "none"
  /\ devMode = dev
  /\ req = NoRequest
  /\ res = Undefined
  /\ log = NoEvents
  /\ HelpersIdle

\* new Prince(): devMode = false
Init == Construct(FALSE)

\* add(method, path, handler) with a handler of the given kind that throws
\* Error("boom") when throws is TRUE.  req, res and log describe a request
\* served under the current routes, so a registration starts them afresh.
Register(method, rawPath, throws, kind) ==
  /\ Len(rawRoutes) < MaxRoutes
  /\ handlers' = Append(handlers, kind)
  /\ LET path == NormalizePath(rawPath)
         handler == Len(rawRoutes) + 1
         route == RouteEntry(method, path, handler)
     IN /\ rawRoutes' = Append(rawRoutes, route)
        /\ staticRoutes' = IF IsStaticRoute(route.parts)
                           THEN MapSet(staticRoutes, <<method, path>>, handler)
                           ELSE staticRoutes
        /\ throwing' = IF throws THEN throwing \cup {handler} ELSE throwing
  /\ routeCache' = EmptyMap
  /\ router' = NoRouter
  /\ req' = NoRequest /\ res' = Undefined /\ log' = NoEvents
  /\ UNCHANGED <<middlewares, errorHandler, devMode, helperVars>>

\* get(path, handler) / post(path, handler) with a handler that returns its
\* data or throws
Add(method, rawPath, throws) == Register(method, rawPath, throws, "data")
\* get(path, handler) / post(path, handler) with a handler of another kind;
\* with "inline" it is post(path, validate(schema), handler), which passes
\* the middleware as the handler parameter of add() and drops the third
\* argument
AddHandler(method, rawPath, kind) == Register(method, rawPath, FALSE, kind)

\* use(mw); req, res and log start afresh as in Add
Use(kind) ==
  /\ Len(middlewares) < MaxMw
  /\ middlewares' = Append(middlewares, kind)
  /\ req' = NoRequest /\ res' = Undefined /\ log' = NoEvents
  /\ UNCHANGED <<rawRoutes, staticRoutes, routeCache, router, handlers,
                 throwing, errorHandler, devMode, helperVars>>

\* error(fn), with an fn that returns a Response or throws
Error(kind) ==
  /\ errorHandler # kind
  /\ errorHandler' = kind
  /\ req' = NoRequest /\ res' = Undefined /\ log' = NoEvents
  /\ UNCHANGED <<rawRoutes, staticRoutes, routeCache, router, middlewares,
                 handlers, throwing, devMode, helperVars>>

\* fetch(req): one request served to its response or to the rejection of
\* the promise
Fetch(method, pathname) ==
  /\ MapHas(routeCache, <<method, pathname>>) \/ Cardinality(DOMAIN routeCache) < MaxCache
  /\ LET h == fetch(method, pathname)
     IN /\ routeCache' = h.cache
        /\ router' = h.router
        /\ res' = h.res
        /\ log' = h.log
  /\ req' = [method |-> method, path |-> pathname]
  /\ UNCHANGED <<rawRoutes, staticRoutes, middlewares, handlers, throwing,
                 errorHandler, devMode, helperVars>>

\* fetch(req) of a request with a content type and a body
FetchBody(method, pathname, contentType, body) ==
  /\ MapHas(routeCache, <<method, pathname>>) \/ Cardinality(DOMAIN routeCache) < MaxCache
  /\ LET h == fetchBody(method, pathname, contentType, body)
     IN /\ routeCache' = h.cache
        /\ router' = h.router
        /\ res' = h.res
        /\ log' = h.log
  /\ req' = [method |-> method, path |-> pathname,
             contentType |-> contentType, body |-> body]
  /\ UNCHANGED <<rawRoutes, staticRoutes, middlewares, handlers, throwing,
                 errorHandler, devMode, helperVars>>

\* the router: registrations and requests, no middleware registered
Next ==
  \/ \E r \in Registrations : Add(r[1], r[2], FALSE)
  \/ \E m \in ReqMethods, p \in ReqPaths : Fetch(m, p)

Spec == Init /\ [][Next]_vars

\* the middleware chain: use(), a few routes, requests
NextChain ==
  \/ \E k \in MwKinds : Use(k)
  \/ \E r \in ChainRegistrations : Add(r[1], r[2], FALSE)
  \/ \E r \in ChainRequests : Fetch(r[1], r[2])

SpecChain == Init /\ [][NextChain]_vars

\* the router with * and ** patterns
NextWild ==
  \/ \E r \in WildRegistrations : Add(r[1], r[2], FALSE)
  \/ \E r \in WildRequests : Fetch(r[1], r[2])

SpecWild == Init /\ [][NextWild]_vars

\* the kinds of value a handler returns: routes, requests
NextKinds ==
  \/ \E r \in ChainRegistrations : Add(r[1], r[2], FALSE)
  \/ \E r \in ChainRegistrations, k \in {"response", "string", "bytes"} :
       AddHandler(r[1], r[2], k)
  \/ \E r \in ChainRequests : Fetch(r[1], r[2])

SpecKinds == Init /\ [][NextKinds]_vars

\* handlers that write to req.params: routes with a param, requests
NextMutate ==
  \/ \E r \in MutateRegistrations : Add(r[1], r[2], FALSE)
  \/ \E r \in MutateRegistrations : AddHandler(r[1], r[2], "mutates")
  \/ \E r \in MutateRequests : Fetch(r[1], r[2])

SpecMutate == Init /\ [][NextMutate]_vars

\* validation: validate(schema) through use() and in the place of the
\* handler, requests with bodies
NextValidate ==
  \/ \E r \in ValidateRegistrations : Add(r[1], r[2], FALSE)
  \/ \E r \in ValidateRegistrations : AddHandler(r[1], r[2], "inline")
  \/ \E k \in {"validate", "through"} : Use(k)
  \/ \E r \in ValidateRequests, b \in ValidateBodies :
       FetchBody(r[1], r[2], b[1], b[2])

SpecValidate == Init /\ [][NextValidate]_vars

\* the dispatcher: handlers and middleware that throw, error(fn), dev mode,
\* cors() and OPTIONS requests
InitDispatch == \E dev \in BOOLEAN : Construct(dev)

NextDispatch ==
  \/ \E r \in DispatchRegistrations, t \in BOOLEAN : Add(r[1], r[2], t)
  \/ \E k \in DispatchMwKinds : Use(k)
  \/ \E k \in {"returns", "throws"} : Error(k)
  \/ \E r \in DispatchRequests : Fetch(r[1], r[2])

SpecDispatch == InitDispatch /\ [][NextDispatch]_vars

\* ------------------------------------------------------ rateLimit actions
\* a second passes
Tick ==
  /\ clock < ClockStart + MaxTicks * MsPerSecond
  /\ clock' = clock + MsPerSecond
  /\ UNCHANGED <<appVars, tasks, trieVars, rateVars, cacheVars>>

\* a request of the client ip enters the middleware, which runs without a
\* suspension up to its return: it counts the request under its key, answers
\* 429 over the maximum, and else, after the cleanup when Math.random() is
\* below 0.01, calls next()
RateLimit(ip, random) ==
  /\ Len(rateLog) < MaxRateRequests
  /\ LET key == RateKey(ip, clock)
         count == (IF MapHas(rateStore, key) THEN rateStore[key] ELSE 0) + 1
         counted == MapSet(rateStore, key, count)
         entry(status) == [ip |-> ip, window |-> WindowOf(clock), status |-> status]
     IN IF count > RateMax
        THEN /\ rateStore' = counted
             /\ rateLog' = Append(rateLog, entry(429))
             /\ UNCHANGED ratePending
        ELSE /\ rateStore' = IF random THEN Cleanup(counted, clock) ELSE counted
             /\ rateLog' = Append(rateLog, entry(0))
             /\ ratePending' = ratePending + 1
  /\ UNCHANGED <<appVars, tasks, trieVars, clock, cacheVars>>

\* the next() of a request that passed the limiter settles
RateNextSettles ==
  /\ ratePending > 0
  /\ ratePending' = ratePending - 1
  /\ UNCHANGED <<appVars, tasks, trieVars, clock, rateStore, rateLog, cacheVars>>

\* ---------------------------------------------------------- cache actions
\* a request for url arrives at the cached handler: it is answered from the
\* store when the entry has not expired, and else calls the wrapped handler,
\* which returns the number of its call, and awaits it
CacheRequest(url) ==
  /\ Len(cacheLog) < MaxCacheRequests
  /\ LET key == url
         now == clock
         stored == IF MapHas(cacheStored, key) THEN <<cacheStored[key]>> ELSE <<>>
         entry(hit, data) == [url |-> url, arrived |-> now, hit |-> hit,
                              data |-> data, stored |-> stored]
     IN IF IsFresh(cacheStore, key, now)
        THEN /\ cacheLog' = Append(cacheLog, entry(TRUE, cacheStore[key].data))
             /\ UNCHANGED <<cacheAwait, handlerCalled>>
        ELSE /\ handlerCalled' = handlerCalled + 1
             /\ cacheAwait' = cacheAwait \cup
                   {[key |-> key, now |-> now, data |-> handlerCalled + 1]}
             /\ cacheLog' = Append(cacheLog, entry(FALSE, handlerCalled + 1))
  /\ UNCHANGED <<appVars, tasks, trieVars, clock, rateVars, cacheStore, cacheTimers, cacheStored>>

\* the handler of an awaiting request settles: the request writes the store
\* with the expiry counted from its arrival and sets the timer
CacheHandlerSettles(r) ==
  /\ cacheAwait' = cacheAwait \ {r}
  /\ cacheStore' = MapSet(cacheStore, r.key,
                          [data |-> r.data, exp |-> r.now + Ttl * MsPerSecond])
  /\ cacheTimers' = cacheTimers \cup
        {[key |-> r.key, at |-> clock + Ttl * MsPerSecond + MsPerSecond]}
  /\ cacheStored' = MapSet(cacheStored, r.key, [t |-> clock, data |-> r.data])
  /\ UNCHANGED <<appVars, tasks, trieVars, clock, rateVars, handlerCalled, cacheLog>>

\* a timer that is due fires: delete store[key]
CacheTimerFires(timer) ==
  /\ timer.at <= clock
  /\ cacheTimers' = cacheTimers \ {timer}
  /\ cacheStore' = MapDelete(cacheStore, timer.key)
  /\ UNCHANGED <<appVars, tasks, trieVars, clock, rateVars, cacheAwait, handlerCalled,
                 cacheStored, cacheLog>>

NextCache ==
  \/ \E url \in CacheUrls : CacheRequest(url)
  \/ \E r \in cacheAwait : CacheHandlerSettles(r)
  \/ \E timer \in cacheTimers : CacheTimerFires(timer)
  \/ Tick

SpecCache == Init /\ [][NextCache]_vars

NextRate ==
  \/ \E ip \in RateIps, random \in BOOLEAN : RateLimit(ip, random)
  \/ RateNextSettles
  \/ Tick

SpecRate == Init /\ [][NextRate]_vars

\* --------------------------------------------------- concurrent requests
\* Each call of executeHandler has its own `let i`: the closure that the
\* next() of task t reads and advances is that of t.
ClosureShared(t) == 1
Closure(t) == t

\* the middleware kinds that await next()
CallsNext(kind) == kind \in {"wrap", "through", "discard"}

\* the request of a task as its middleware and handler see it
TaskRequest(task) ==
  [method |-> task.method, params |-> task.params, parsedBody |-> UndefinedBody]

\* a request arrives: handleFetch runs without a suspension through
\* findRoute, answers 404 and 405 at once, and else enters executeHandler,
\* which creates the closure with i = 0 and calls next()
TaskStart(method, pathname) ==
  /\ Len(tasks) < MaxTasks
  /\ LET f == findRoute(rawRoutes, staticRoutes, routeCache, router, method, pathname)
         routeMatch == f.result
         t == Len(tasks) + 1
         task(pc, handler, params, r) ==
           [method |-> method, handler |-> handler, params |-> params, i |-> 0,
            stack |-> <<>>, log |-> NoEvents, pc |-> pc, res |-> r]
         new == IF routeMatch.isNull
                THEN task("done", NoHandler, EmptyParams, JsonError("Not Found", 404))
                ELSE IF routeMatch.hasAllowed /\ routeMatch.handler = NoHandler
                THEN task("done", NoHandler, EmptyParams,
                          AsJson(Response(405, "Method Not Allowed",
                                          routeMatch.allowedMethods, NoHandler,
                                          EmptyParams, 0)))
                ELSE task("loop", routeMatch.handler, routeMatch.params, Undefined)
     IN /\ tasks' = [Append(tasks, new) EXCEPT ![Closure(t)].i = 0]
        /\ routeCache' = f.cache
        /\ router' = f.router
  /\ UNCHANGED <<rawRoutes, staticRoutes, middlewares, handlers, throwing,
                 errorHandler, devMode, req, res, log, clock, rateVars, cacheVars,
                 trieVars>>

\* task t resumes in the while loop of its next(): it calls the middleware
\* at position i, advancing i, or past the last middleware its handler.  A
\* middleware that awaits next() is suspended on the stack of the task.
TaskCall(t) ==
  /\ t \in DOMAIN tasks
  /\ tasks[t].pc = "loop"
  /\ LET task == tasks[t]
         c == Closure(t)
         i == tasks[c].i
         k == i + 1
         st == [i |-> k, log |-> task.log]
         entered == Append(task.log, Event("mw", k))
         out == RunMiddleware(middlewares, task.handler, TaskRequest(task), k, st)
         after == IF i >= Len(middlewares)
                  THEN [task EXCEPT !.log = Append(@, HandlerEvent(task.handler)),
                                    !.res = Normalize(CallHandler(task.handler,
                                                                  TaskRequest(task))),
                                    !.pc = "return"]
                  ELSE IF CallsNext(middlewares[k])
                  THEN [task EXCEPT !.log = entered, !.stack = Append(@, k)]
                  ELSE [task EXCEPT !.log = out.st.log, !.res = out.res,
                                    !.pc = IF Settled(out) THEN "return" ELSE "loop"]
     IN tasks' = IF i >= Len(middlewares)
                 THEN [tasks EXCEPT ![t] = after]
                 ELSE [[tasks EXCEPT ![t] = after] EXCEPT ![c].i = k]
  /\ UNCHANGED <<appVars, clock, rateVars, cacheVars, trieVars>>

\* the next() of task t has settled: the innermost middleware that awaits it
\* resumes and returns, and the loop it was called from returns its Response
\* or goes on; with no middleware left waiting, fetch resolves
TaskReturn(t) ==
  /\ t \in DOMAIN tasks
  /\ tasks[t].pc = "return"
  /\ LET task == tasks[t]
         k == task.stack[Len(task.stack)]
         out == AfterNext(middlewares[k], k,
                          [st |-> [i |-> task.i, log |-> task.log], res |-> task.res])
         h == try([res |-> task.res, log |-> task.log, cache |-> routeCache,
                   router |-> router])
     IN tasks' = [tasks EXCEPT ![t] =
                    IF task.stack = <<>>
                    THEN [task EXCEPT !.pc = "done", !.res = h.res, !.log = h.log]
                    ELSE [task EXCEPT !.stack = SubSeq(@, 1, Len(@) - 1),
                                      !.log = out.st.log, !.res = out.res,
                                      !.pc = IF Settled(out) THEN "return" ELSE "loop"]]
  /\ UNCHANGED <<appVars, clock, rateVars, cacheVars, trieVars>>

\* concurrent requests: the application registers its routes and middleware
\* and then serves; the requests advance one suspension at a time
NextTasks ==
  \/ tasks = <<>> /\ \E r \in TaskRegistrations : Add(r[1], r[2], FALSE)
  \/ tasks = <<>> /\ \E k \in TaskMwKinds : Use(k)
  \/ \E r \in TaskRequests : TaskStart(r[1], r[2])
  \/ \E t \in 1..MaxTasks : TaskCall(t)
  \/ \E t \in 1..MaxTasks : TaskReturn(t)

SpecTasks == Init /\ [][NextTasks]_vars

\* ------------------------------------------------------------ trie router
\* The router of src/prince.ts that builds a trie in listen() and compiles
\* one pipeline per node and method.  A TrieNode is named by the edges from
\* the root to it: a literal part for children[part], ":" for paramChild,
\* "*" for wildcardChild and "**" for catchAllChild.  The trie holds the set
\* of its nodes, the handlers record of the nodes that have one, and the
\* name of each paramChild.
EmptyTrie == [nodes |-> {<<>>}, handlers |-> EmptyMap, names |-> EmptyMap]

\* the edge that buildRouter follows or creates for a part of a route
TrieEdge(part) ==
  IF part = "**" THEN "**"
  ELSE IF part = "*" THEN "*"
  ELSE IF StartsWithColon(part) THEN ":"
  ELSE part

\* the loop over route.parts from part i at the node: a missing edge is
\* created, a paramChild keeps the name it was created with, and "**" ends
\* the walk; the handler is then set for the method at the node reached
RECURSIVE TrieInsert(_, _, _, _)
TrieInsert(trie, route, node, i) ==
  LET part == route.parts[i]
      child == Append(node, TrieEdge(part))
      grown == [trie EXCEPT !.nodes = @ \cup {child},
                            !.names = IF TrieEdge(part) = ":" /\ ~MapHas(@, child)
                                      THEN MapSet(@, child, ParamName(part))
                                      ELSE @]
      byMethod == IF MapHas(trie.handlers, node) THEN trie.handlers[node] ELSE EmptyMap
  IN IF i > Len(route.parts) \/ route.parts = <<"">>
     THEN [trie EXCEPT !.handlers = MapSet(@, node, MapSet(byMethod, route.method,
                                                          route.handler))]
     ELSE IF part = "**"
     THEN TrieInsert(grown, route, child, Len(route.parts) + 1)
     ELSE TrieInsert(grown, route, child, i + 1)

\* buildRouter(): the routes are inserted in registration order
RECURSIVE TrieBuild(_, _, _)
TrieBuild(trie, routes, k) ==
  IF k > Len(routes) THEN trie
  ELSE TrieBuild(TrieInsert(trie, routes[k], <<>>, 1), routes, k + 1)

\* pathname === "/" ? [] : pathname.slice(1).split("/")
TrieSegments(pathname) == IF pathname = <<Slash>> THEN <<>> ELSE Parts(pathname)

\* the for loop of fetch over the segments: the first edge that exists, in
\* the order children, paramChild, wildcardChild, catchAllChild, is followed
\* and never reconsidered
RECURSIVE TrieWalk(_, _, _, _, _)
TrieWalk(trie, node, segments, i, params) ==
  LET seg == segments[i]
      has(edge) == Append(node, edge) \in trie.nodes
  IN IF i > Len(segments) THEN [matched |-> TRUE, node |-> node, params |-> params]
     ELSE IF seg \notin {":", "*", "**"} /\ has(seg)
     THEN TrieWalk(trie, Append(node, seg), segments, i + 1, params)
     ELSE IF has(":")
     THEN TrieWalk(trie, Append(node, ":"), segments, i + 1,
                   ParamSet(params, trie.names[Append(node, ":")], seg))
     ELSE IF has("*")
     THEN TrieWalk(trie, Append(node, "*"), segments, i + 1, params)
     ELSE IF has("**")
     THEN [matched |-> TRUE, node |-> Append(node, "**"), params |-> params]
     ELSE [matched |-> FALSE, node |-> node, params |-> params]

\* byMethod[req.method] ?? byMethod["GET"]; at the root node only
\* node.handlers[req.method]
MethodLookup(byMethod, method, segments) ==
  IF MapHas(byMethod, method) THEN byMethod[method]
  ELSE IF segments # <<>> /\ MapHas(byMethod, "GET") THEN byMethod["GET"]
  ELSE NoHandler

\* compilePipeline(handler, (_) => params): the pipeline holds the handler,
\* a copy of the middlewares of the moment, and the params object of the
\* request that it is compiled for
compilePipeline(handler, params) ==
  [handler |-> handler, params |-> params, mws |-> middlewares]

\* runNext() of a pipeline from position idx: past the last middleware the
\* handler is called with paramsFromMatch(req); else the middleware at idx
\* is called and what it returns is returned
RECURSIVE runNext(_, _, _)
runNext(pipeline, idx, l) ==
  LET k == idx + 1
      entered == Append(l, Event("mw", k))
  IN IF idx >= Len(pipeline.mws)
     THEN [log |-> Append(l, Event("handler", pipeline.handler)),
           res |-> JsonData(pipeline.handler, pipeline.params)]
     ELSE IF pipeline.mws[k] = "pass"
     THEN [log |-> entered, res |-> Undefined]
     ELSE runNext(pipeline, k, entered)

\* the function compilePipeline returns, called with a request: what
\* runNext() gave, or 204 when that is undefined
RunPipeline(out) ==
  IF IsResponse(out.res) THEN out
  ELSE [out EXCEPT !.res = Response(204, "", <<>>, NoHandler, EmptyParams, 0)]

\* add(method, path, handler) of the trie router: the route is pushed to
\* rawRoutes (the methods of get(), post(), ... are upper case already)
TrieAdd(method, rawPath) ==
  /\ Len(rawRoutes) < MaxRoutes
  /\ rawRoutes' = Append(rawRoutes, RouteEntry(method, NormalizePath(rawPath),
                                               Len(rawRoutes) + 1))
  /\ handlers' = Append(handlers, "data")
  /\ req' = NoRequest /\ res' = Undefined /\ log' = NoEvents
  /\ UNCHANGED <<staticRoutes, routeCache, router, middlewares, throwing,
                 errorHandler, devMode, helperVars>>

\* listen(): the trie is built from the routes of the moment and handlerMap
\* starts empty
TrieListen ==
  /\ root = NoRouter
  /\ root' = TrieBuild(EmptyTrie, rawRoutes, 1)
  /\ handlerMap' = EmptyMap
  /\ UNCHANGED <<appVars, clock, rateVars, cacheVars, tasks>>

\* fetch(req) of the server that listen() started
TrieFetch(method, pathname) ==
  /\ root # NoRouter
  /\ LET segments == TrieSegments(pathname)
         w == TrieWalk(root, <<>>, segments, 1, EmptyParams)
         byMethod == root.handlers[w.node]
         handler == MethodLookup(byMethod, method, segments)
         key == <<w.node, method>>
         compiled == IF MapHas(handlerMap, key) THEN handlerMap
                     ELSE MapSet(handlerMap, key, compilePipeline(handler, w.params))
         out == RunPipeline(runNext(compiled[key], 0, NoEvents))
     IN IF ~w.matched \/ ~MapHas(root.handlers, w.node)
        THEN /\ res' = JsonError("Route not found", 404)
             /\ log' = NoEvents
             /\ UNCHANGED handlerMap
        ELSE IF handler = NoHandler
        THEN /\ res' = JsonError("Method not allowed", 405)
             /\ log' = NoEvents
             /\ UNCHANGED handlerMap
        ELSE /\ res' = out.res
             /\ log' = out.log
             /\ handlerMap' = compiled
  /\ req' = [method |-> method, path |-> pathname]
  /\ UNCHANGED <<rawRoutes, staticRoutes, routeCache, router, middlewares,
                 handlers, throwing, errorHandler, devMode, clock, rateVars,
                 cacheVars, tasks, root>>

\* the trie router: routes, middleware, listen(), requests
NextTrie ==
  \/ \E r \in TrieRegistrations : TrieAdd(r[1], r[2])
  \/ \E k \in TrieMwKinds : Use(k)
  \/ TrieListen
  \/ \E r \in TrieRequests : TrieFetch(r[1], r[2])

SpecTrie == Init /\ [][NextTrie]_vars

\* ======================================================================
\* Properties
\* ======================================================================
\* a request has been served under the current routes and middleware
Served == req # NoRequest
Segments == Parts(req.path)
Routes == DOMAIN rawRoutes

\* The pattern language: a literal matches the equal segment, :name and *
\* match any one segment, a final ** matches the remaining segments, none
\* included.
RECURSIVE PatternMatches(_, _)
PatternMatches(parts, segs) ==
  IF parts = <<>> THEN segs = <<>>
  ELSE IF parts = <<"**">> THEN TRUE
  ELSE /\ segs # <<>>
       /\ StartsWithColon(Head(parts)) \/ Head(parts) = "*" \/ Head(parts) = Head(segs)
       /\ PatternMatches(Tail(parts), Tail(segs))

\* the registered routes whose pattern matches the path of the request, and
\* those of them registered for its method
Matching == {k \in Routes : PatternMatches(rawRoutes[k].parts, Segments)}
MatchingMethod == {k \in Matching : rawRoutes[k].method = req.method}
SeqSet(seq) == {seq[j] : j \in DOMAIN seq}
Count(seq, e) == Cardinality({j \in DOMAIN seq : seq[j] = e})
HandlerEvents == {j \in DOMAIN log : log[j][1] = "handler"}

\* C1: a request whose path matches a registered pattern and whose method is
\* registered for none of the matching patterns is answered 405 "Method Not
\* Allowed" with an Allow header listing exactly the methods of the matching
\* patterns.
C1_AllowListsMatchingMethods ==
  (Served /\ Matching # {} /\ MatchingMethod = {})
    => /\ res.status = 405
       /\ res.error = "Method Not Allowed"
       /\ SeqSet(res.allow) = {rawRoutes[k].method : k \in Matching}

\* C2: a request whose path matches no registered pattern is answered 404
\* "Not Found", never 405 and never by a handler.
C2_NoMatchIs404 ==
  (Served /\ Matching = {})
    => /\ res.status = 404
       /\ res.error = "Not Found"
       /\ res.handler = NoHandler
       /\ HandlerEvents = {}

\* a literal route l and a param route q of the same method that share their
\* first segment, q matching the path of l
LiteralAndParam(l, q) ==
  /\ IsStaticRoute(rawRoutes[l].parts)
  /\ \E j \in DOMAIN rawRoutes[q].parts : StartsWithColon(rawRoutes[q].parts[j])
  /\ rawRoutes[l].method = rawRoutes[q].method
  /\ rawRoutes[l].parts[1] = rawRoutes[q].parts[1]
  /\ PatternMatches(rawRoutes[q].parts, rawRoutes[l].parts)

\* C3: with a literal route and a param route sharing a prefix registered for
\* the same method, in either order, a request to the literal path is
\* dispatched to the literal route's handler, never to the param route's.
C3_LiteralBeatsParam ==
  \A l \in Routes, q \in Routes :
    (/\ LiteralAndParam(l, q)
     /\ Served /\ req.method = rawRoutes[l].method /\ req.path = rawRoutes[l].path)
      => /\ res.status = 200
         /\ res.handler \in Routes
         /\ rawRoutes[res.handler].path = rawRoutes[l].path
         /\ rawRoutes[res.handler].method = req.method
         /\ log = <<Event("handler", res.handler)>>
         /\ res.handler # q

\* the param route was registered first and the literal route answered
C3_Witness ==
  \E l \in Routes, q \in Routes :
    /\ LiteralAndParam(l, q) /\ q < l
    /\ Served /\ req.method = rawRoutes[l].method /\ req.path = rawRoutes[l].path
    /\ res.handler = l

\* ---------------------------------------------------------- middleware chain
N == Len(middlewares)
AllOfKind(kinds) == \A k \in 1..N : middlewares[k] \in kinds
\* the request has a route: the handler the chain ends at is the last
\* registration of the matching routes of its method (one pattern each in
\* ChainRegistrations)
HasRoute == MatchingMethod # {}
RouteHandler == CHOOSE k \in MatchingMethod : \A j \in MatchingMethod : j <= k

\* C4: with N middleware that each call next() once and return its result, one
\* request to a matched route runs every middleware body exactly once and the
\* route handler exactly once.
C4_EachMiddlewareOnce ==
  (Served /\ HasRoute /\ AllOfKind({"wrap", "through"}))
    => /\ \A k \in 1..N : Count(log, Event("mw", k)) = 1
       /\ Count(log, Event("handler", RouteHandler)) = 1
       /\ Cardinality(HandlerEvents) = 1

C4_Witness ==
  /\ Served /\ HasRoute /\ AllOfKind({"wrap", "through"})
  /\ N >= 2
  /\ \A k \in 1..N : Count(log, Event("mw", k)) = 1
  /\ Cardinality(HandlerEvents) = 1

\* C5: once a middleware has returned a Response without calling next(), neither
\* the route handler nor a middleware registered after it runs for that
\* request, and the caller receives that Response (rebuilt, at most, by
\* middleware registered before it).
C5_ShortCircuitStopsChain ==
  \A k \in 1..N :
    (Served /\ middlewares[k] = "short" /\ Count(log, Event("mw", k)) > 0)
      => /\ HandlerEvents = {}
         /\ \A j \in (k + 1)..N : Count(log, Event("mw", j)) = 0
         /\ res.mw = k /\ res.status = 401
         /\ \A j \in SeqSet(res.tags) : j < k

\* before(M1) .. before(Mn), handler, after(Mn) .. after(M1)
OnionLog(n, h) ==
  [j \in 1..(2 * n + 1) |->
     IF j <= n THEN Event("mw", j)
     ELSE IF j = n + 1 THEN Event("handler", h)
     ELSE Event("after", 2 * n + 2 - j)]
\* the middleware that rebuild the response, innermost first
RECURSIVE WrapTags(_)
WrapTags(k) ==
  IF k = 0 THEN <<>>
  ELSE (IF middlewares[k] = "wrap" THEN <<k>> ELSE <<>>) \o WrapTags(k - 1)

\* C6: with M1..Mn each awaiting next() and returning the (possibly rebuilt)
\* response, the events of a request are before(M1) .. before(Mn), handler,
\* after(Mn) .. after(M1), and the caller receives the response M1 returns:
\* the handler's result rebuilt by Mn first and M1 last.
C6_EarlierWrapsLater ==
  (Served /\ HasRoute /\ AllOfKind({"wrap", "through"}))
    => /\ log = OnionLog(N, RouteHandler)
       /\ res.status = 200 /\ res.handler = RouteHandler
       /\ res.tags = WrapTags(N)

C6_Witness ==
  /\ Served /\ HasRoute /\ N >= 2
  /\ middlewares[1] = "wrap" /\ AllOfKind({"wrap", "through"})
  /\ log = OnionLog(N, RouteHandler)
  /\ res.tags[Len(res.tags)] = 1

\* C7: middleware that return undefined without calling next() do not stop the
\* chain: they run once each in registration order, then the route handler
\* runs, and its result is the response.
C7_UndefinedContinues ==
  (Served /\ HasRoute /\ AllOfKind({"pass"}))
    => /\ log = [j \in 1..(N + 1) |->
                   IF j <= N THEN Event("mw", j) ELSE Event("handler", RouteHandler)]
       /\ res.status = 200 /\ res.handler = RouteHandler /\ res.tags = <<>>

C7_Witness ==
  /\ Served /\ HasRoute /\ AllOfKind({"pass"}) /\ N >= 2
  /\ log[N + 1] = Event("handler", RouteHandler)
  /\ res.handler = RouteHandler

\* ---------------------------------------------------------------- params
\* the positions of :name segments in a pattern, and the names
ParamPositions(parts) == {j \in DOMAIN parts : StartsWithColon(parts[j])}
ParamNames(parts) == {ParamName(parts[j]) : j \in ParamPositions(parts)}
NamedOnce(parts, j) ==
  \A i \in ParamPositions(parts) : parts[i] = parts[j] => i = j

\* C8: the handler of a matched route with named params receives params that
\* bind each :name of that route to the request segment at its position, and
\* nothing else (no binding of a branch the walk tried and abandoned).  A
\* name the route itself uses twice is bound to one of its segments.
C8_ParamsOfMatchedRoute ==
  (Served /\ res.status = 200 /\ res.handler \in Routes)
    => LET parts == rawRoutes[res.handler].parts
       IN /\ Len(parts) <= Len(Segments)
          /\ \A j \in ParamPositions(parts) :
               /\ ParamName(parts[j]) \in DOMAIN res.params
               /\ NamedOnce(parts, j) => res.params[ParamName(parts[j])] = Segments[j]
          /\ DOMAIN res.params = ParamNames(parts)

\* ------------------------------------------------------------ trailing slash
HasTrailingSlash(path) == path # <<Slash>> /\ EndsWithSlash(path)
StripTrailingSlash(path) == SubSeq(path, 1, Len(path) - 1)

\* C9: a request whose path carries a single trailing slash is resolved as the
\* same path without it: same status, handler, params and Allow header.
C9_TrailingSlashRequest ==
  (Served /\ HasTrailingSlash(req.path))
    => res = handleFetch(req.method, StripTrailingSlash(req.path)).res

\* ----------------------------------------------------------------- catch-all
EndsWithCatchAll(parts) == Len(parts) >= 1 /\ parts[Len(parts)] = "**"

\* C10: a route P/** answers every request of its method whose path is P
\* followed by zero or more segments (when no route of another pattern is
\* registered for that method and path, the handler is this route's, in its
\* latest registration).
C10_CatchAllMatchesRest ==
  \A k \in Routes :
    (/\ Served /\ k \in MatchingMethod
     /\ EndsWithCatchAll(rawRoutes[k].parts)
     /\ \A j \in MatchingMethod : rawRoutes[j].path = rawRoutes[k].path)
      => /\ res.status = 200
         /\ res.handler = RouteHandler
         /\ log = <<Event("handler", RouteHandler)>>

\* ------------------------------------------------------------------ wildcard
HasWildcard(parts) == Includes(parts, "*")
SamePattern(j, k) == rawRoutes[j].path = rawRoutes[k].path

PrefixMatches(parts, segs) ==
  /\ Len(segs) >= Len(parts) - 1
  /\ PatternMatches(SubSeq(parts, 1, Len(parts) - 1), SubSeq(segs, 1, Len(parts) - 1))

\* C12: a route whose last segment is * answers a request that has more than
\* one segment after the prefix (/f/* and /f/1/2).
C12_LastWildcardMatchesDeeper ==
  \A k \in Routes :
    (/\ Served /\ rawRoutes[k].method = req.method
     /\ rawRoutes[k].parts[Len(rawRoutes[k].parts)] = "*"
     /\ PrefixMatches(rawRoutes[k].parts, Segments)
     /\ Len(Segments) > Len(rawRoutes[k].parts)
     /\ MatchingMethod = {})
      => /\ res.status = 200
         /\ res.handler \in Routes
         /\ SamePattern(res.handler, k)

\* ------------------------------------------------------------------ errors
\* the route handler was called and threw; a middleware was called and threw
HandlerThrew ==
  \E j \in DOMAIN log : log[j][1] = "handler" /\ log[j][2] \in throwing
MiddlewareThrew ==
  \E j \in DOMAIN log : log[j][1] = "mw" /\ middlewares[log[j][2]] = "throws"
ThrownMessage == IF MiddlewareThrew THEN "mw" ELSE "boom"
ErrorHandlerCalls == Count(log, Event("error", 0))
DefaultErrors == Served /\ HandlerThrew /\ errorHandler = "none" /\ ~devMode

C14_ErrorHandlerOnce ==
  (Served /\ errorHandler # "none")
    => /\ ErrorHandlerCalls = (IF HandlerThrew \/ MiddlewareThrew THEN 1 ELSE 0)
       /\ (errorHandler = "returns")
            => /\ res.custom = (HandlerThrew \/ MiddlewareThrew)
               /\ res.custom => (res.status = 500 /\ res.error = ThrownMessage)

\* the error handler answered for a middleware that threw behind another one
C14_Witness ==
  /\ Served /\ errorHandler = "returns" /\ MiddlewareThrew
  /\ Len(log) > 2 /\ res.custom /\ res.error = "mw"

\* C15: fetch resolves to a Response for every request, whatever the route
\* handler, the middleware and the error handler do.
C15_FetchResolves == Served => IsResponse(res)

\* C18: with cors() as the first middleware, an OPTIONS request to a path
\* that is registered for another method only is answered 204 with the CORS
\* headers by the middleware.
C18_CorsAnswersPreflight ==
  (/\ Served /\ req.method = "OPTIONS"
   /\ middlewares # <<>> /\ middlewares[1] = "cors"
   /\ Matching # {} /\ MatchingMethod = {})
    => /\ res.status = 204
       /\ res.cors
       /\ res.mw = 1

\* ------------------------------------------------------- invalid patterns
\* a ** segment before the last segment
NonFinalCatchAll(parts) == \E j \in 1..(Len(parts) - 1) : parts[j] = "**"

\* C16: registering a pattern with a ** segment in a non-final position
\* fails at registration and leaves the route table, the static map and the
\* caches unchanged, so no such pattern is ever in the route table.
C16_NonFinalCatchAllRejected ==
  \A k \in Routes : ~NonFinalCatchAll(rawRoutes[k].parts)

\* ------------------------------------------------------- re-registration
SameRoute(j, k) ==
  /\ rawRoutes[j].method = rawRoutes[k].method
  /\ rawRoutes[j].path = rawRoutes[k].path
LastRegistration(k) == \A j \in Routes : SameRoute(j, k) => j <= k
\* the static routes registered with the request's method and its very path
ExactStatic ==
  {k \in Routes : /\ IsStaticRoute(rawRoutes[k].parts)
                  /\ rawRoutes[k].method = req.method
                  /\ rawRoutes[k].path = req.path}

\* C17: a request whose method and path are those of a registered static
\* route is answered by that route's handler, and whatever route answers a
\* request, static or parameterized, it is the last registration of its
\* (method, path).
C17_LastRegistrationAnswers ==
  Served => /\ ExactStatic # {}
               => /\ res.status = 200
                  /\ res.handler \in ExactStatic
            /\ res.handler \in Routes => LastRegistration(res.handler)

\* the same parameterized route was registered twice and the second
\* handler answered
C17_Witness ==
  /\ Served /\ Len(rawRoutes) = 2 /\ SameRoute(1, 2)
  /\ ~IsStaticRoute(rawRoutes[1].parts)
  /\ res.status = 200 /\ res.handler = 2

\* ------------------------------------------------------------- rate limit
\* the requests of the same client and window seen before request j
EarlierSame(j) ==
  {x \in 1..(j - 1) : /\ rateLog[x].ip = rateLog[j].ip
                      /\ rateLog[x].window = rateLog[j].window}

\* C19: per client IP and time window, exactly the first RateMax requests
\* reach next() and every later one is answered 429.
C19_FirstMaxPass ==
  \A j \in DOMAIN rateLog :
    (rateLog[j].status = 429) <=> (Cardinality(EarlierSame(j)) >= RateMax)

\* ------------------------------------------------------------------ cache
\* C20: a request for a URL that arrives less than Ttl seconds after the
\* latest write of a result for that URL to the store is answered with that
\* result and does not call the wrapped handler.
C20_FreshResultServed ==
  \A j \in DOMAIN cacheLog :
    LET e == cacheLog[j]
    IN (e.stored # <<>> /\ e.arrived < e.stored[1].t + Ttl * MsPerSecond)
         => (e.hit /\ e.data = e.stored[1].data)

\* --------------------------------------------------------------- validation
\* the request has a JSON body that satisfies the schema
BodySatisfies ==
  req.contentType = "application/json" /\ Satisfies(req.body)
\* the positions in log where validate(schema) was entered
ValidateEvents ==
  {j \in DOMAIN log : log[j][1] = "mw" /\ middlewares[log[j][2]] = "validate"}

\* C21: when a POST request passes through validate(schema) with a body that
\* does not satisfy the schema, or with no parsable body, the answer is 400
\* "Validation failed" with field-level issues, and neither the handler nor
\* a later middleware runs.
C21_InvalidBodyStopsAtValidate ==
  (/\ Served /\ req.method \in {"POST", "PUT", "PATCH"}
   /\ ValidateEvents # {} /\ ~BodySatisfies)
    => /\ res.status = 400
       /\ res.error = "Validation failed"
       /\ res.details # {}
       /\ \E v \in ValidateEvents : \A j \in DOMAIN log : j > v => log[j][1] = "after"

\* C22: a route registered as post(path, validate(schema), handler), with no
\* other middleware, answers a request whose body satisfies the schema with
\* the result of its handler, and a request whose body does not with the 400
\* of the middleware, the handler not run.
C22_InlineMiddlewareThenHandler ==
  (/\ Served /\ middlewares = <<>> /\ HasRoute
   /\ handlers[RouteHandler] = "inline")
    => IF BodySatisfies
       THEN /\ res.status = 200
            /\ res.handler = RouteHandler
            /\ res.body = "json"
       ELSE /\ res.status = 400
            /\ HandlerEvents = {}

\* ------------------------------------------------- request isolation
\* the params the request gets when no request was served before it
FreshParams ==
  findRoute(rawRoutes, staticRoutes, EmptyMap, NoRouter, req.method, req.path).result.params

\* C23: the params a handler sees are those of its own request, whatever the
\* handlers of earlier requests wrote to their req.params: a request
\* answered by a handler is answered with the params it gets when it is the
\* first request served.
C23_ParamsNotShared ==
  (Served /\ res.status = 200 /\ res.handler \in Routes) => res.params = FreshParams

\* --------------------------------------------------- concurrent chains
MwEvents(l) == SelectSeq(l, LAMBDA e : e[1] = "mw")
HandlerPositions(l) == {j \in DOMAIN l : l[j][1] = "handler"}

\* C24: whatever the interleaving of the requests in flight, the middleware
\* calls of each request are those at positions 1, 2, ... in registration
\* order, none skipped and none repeated; the handler it calls is the handler
\* of its own route, called after every registered middleware; and it ends
\* with the events and the response it has when it is served alone.
C24_ChainSequentialPerRequest ==
  \A t \in DOMAIN tasks :
    LET task == tasks[t]
        mws == MwEvents(task.log)
    IN /\ \A j \in DOMAIN mws : mws[j] = Event("mw", j)
       /\ \A j \in HandlerPositions(task.log) :
            /\ task.log[j] = Event("handler", task.handler)
            /\ Len(MwEvents(SubSeq(task.log, 1, j))) = Len(middlewares)
       /\ (task.pc = "done" /\ task.handler # NoHandler)
            => LET alone == executeHandler(middlewares, task.handler, TaskRequest(task))
               IN task.log = alone.st.log /\ task.res = alone.res

\* two requests with different params are in their chains at the same time,
\* at different positions
C24_Witness ==
  /\ Len(tasks) = 2
  /\ Len(middlewares) >= 2
  /\ tasks[1].pc = "return" /\ tasks[1].stack # <<>>
  /\ tasks[2].pc = "loop" /\ tasks[2].i = 1
  /\ tasks[1].params # tasks[2].params

\* ---------------------------------------------------- result normalisation
\* the handlers that the chain of the request called
Called == {log[j][2] : j \in HandlerEvents}

\* C25: the response of a request that a handler answered is, by the kind of
\* value the handler returned: its own Response as it built it (status,
\* content type and body); for data, 200 with Content-Type application/json
\* and the JSON encoding as body; for a string, 200 with the text as body;
\* for a Uint8Array, 200 with the bytes as body.
C25_NormalizedByKind ==
  (Served /\ middlewares = <<>>)
    => \A h \in Called :
         /\ res.handler = h
         /\ CASE handlers[h] = "response" ->
                   res.status = 201 /\ res.contentType = "text/html" /\ res.body = "own"
              [] handlers[h] = "data" ->
                   /\ res.status = 200 /\ res.contentType = "application/json"
                   /\ res.body = "json"
              [] handlers[h] = "string" ->
                   /\ res.status = 200 /\ res.body = "text"
                   /\ res.contentType # "application/json"
              [] handlers[h] = "bytes" ->
                   /\ res.status = 200 /\ res.body = "bytes"
                   /\ res.contentType # "application/json"
              [] OTHER -> TRUE

\* handlers of the four kinds were registered and one that returns a string
\* or a Uint8Array has answered
C25_Witness ==
  /\ Served
  /\ Called # {}
  /\ \A h \in Called : handlers[h] \in {"string", "bytes"}
  /\ \E h \in DOMAIN handlers : handlers[h] \in {"response", "data"}

\* ------------------------------------------------------- at most once
\* C26: whatever the middleware do with next(), no middleware body and no
\* route handler is executed more than once for one request.
C26_NothingRunsTwice ==
  Served => \A e \in SeqSet(log) : e[1] \in {"mw", "handler"} => Count(log, e) = 1

\* ---------------------------------------------------- cache invalidation
\* findRoute on the current state, and on the current route table with an
\* empty routeCache and no tree built
CachedFind(method, pathname) ==
  findRoute(rawRoutes, staticRoutes, routeCache, router, method, pathname).result
ScratchFind(method, pathname) ==
  findRoute(rawRoutes, staticRoutes, EmptyMap, NoRouter, method, pathname).result
FindRequests == (ReqMethods \X ReqPaths) \cup MutateRequests

\* C27: after any registrations and requests, findRoute answers every
\* request as it answers it from scratch on the current route table (no
\* match, 404 or 405 cached before a registration survives it), and a tree
\* that is built is the tree of the current route table.
C27_FindRouteFromScratch ==
  /\ \A r \in FindRequests : CachedFind(r[1], r[2]) = ScratchFind(r[1], r[2])
  /\ router # NoRouter => router = buildRouter(NoRouter, rawRoutes, staticRoutes)

\* ------------------------------------------------------------ trie router
\* the params that the walk of the trie extracts from the path of the request
OwnParams == TrieWalk(root, <<>>, TrieSegments(req.path), 1, EmptyParams).params

\* C28: in the trie router every request that a handler answers is answered
\* with the params extracted from its own path, whatever requests were
\* served before it.
C28_TrieParamsOfOwnRequest ==
  (Served /\ root # NoRouter /\ Called # {}) => res.params = OwnParams

\* C29: in the trie router a handler that runs for a request was registered
\* under the method of that request.
C29_HandlerOfOwnMethod ==
  (Served /\ root # NoRouter) => \A h \in Called : rawRoutes[h].method = req.method

\* ------------------------------------------------------ concurrent misses
\* C30: requests for one URL that arrive at the same time, whether or not
\* the handler call of the first has settled, are answered with one result:
\* the wrapped handler is called for the first of them only.
C30_OneCallForConcurrentRequests ==
  \A j, k \in DOMAIN cacheLog :
    (j < k /\ cacheLog[j].url = cacheLog[k].url
       /\ cacheLog[j].arrived = cacheLog[k].arrived)
      => (cacheLog[k].hit /\ cacheLog[k].data = cacheLog[j].data)

====
